---- MODULE Spec2Model ----
(***************************************************************************)
(* pdf-fillerinator-9000: the coordinate/overlay pipeline                   *)
(* (utils/pdf_processor.py), the detection boundary (utils/llm_helper.py)   *)
(* and the Streamlit session flow (app.py).                                 *)
(*                                                                         *)
(* Python dicts are records whose keys may be missing; a dict that keeps    *)
(* insertion order (form_data) is a sequence of entries.  Coordinates       *)
(* x * W / 1000 are kept exactly, as the numerator x * W in thousandths of  *)
(* a unit: 61.2 is 61200.                                                   *)
(***************************************************************************)
EXTENDS Integers, Sequences, FiniteSets, TLC

VARIABLES
    call,       \* unit harness: the function called and its arguments
    ret,        \* unit harness: what the call returned
    uploaded,   \* the document behind st.file_uploader
    files,      \* file system: path -> document
    runs,       \* user interactions so far (each runs the script)
    session,    \* st.session_state
    sidebar,    \* the sidebar inputs: api_key, sarvam_api_key
    last        \* outcome of the last Analyze / Generate handler

vars == <<call, ret, uploaded, files, runs, session, sidebar, last>>

-----------------------------------------------------------------------------
(* Bounds of the model *)

MaxBatch == 2      \* fields in one overlay_text / draw_bounding_boxes call
MaxRuns == 5       \* user interactions in one session
MaxRegs == 2       \* registrations before one get_all_fields_flat call

(* Program constants *)

Scale == 1000      \* the 0-1000 normalized coordinate space
FontSize == 12     \* fontsize=12 of insert_textbox / insert_text
FallbackDx == 2    \* rect.tl + (2, 12)
FallbackDy == 12
LabelGap == 15     \* rect[1] - 15 if rect[1] > 15

-----------------------------------------------------------------------------
(* Python helpers *)

\* dict.get(key, default)
Get(d, key, default) == IF key \in DOMAIN d THEN d[key] ELSE default

\* d | {key: value}: a dict with one key set
SetKey(d, key, value) ==
    [k \in DOMAIN d \cup {key} |-> IF k = key THEN value ELSE d[k]]

\* x1, y1, x2, y2 = box  succeeds only on a sequence of exactly four items
Unpacks4(box) == Len(box) = 4

-----------------------------------------------------------------------------
(* Documents.  A document is a sequence of pages (page 0 is doc[1]); a page *)
(* has its native point size and the text inserted on it so far.            *)

Letter == [width |-> 612, height |-> 792, texts |-> <<>>]
Wide == [width |-> 842, height |-> 595, texts |-> <<>>]

\* the page at 0-based index i of a document of n pages is Letter for even
\* i and Wide for odd i: pages of one document differ in size
BlankPage(i) == IF i % 2 = 0 THEN Letter ELSE Wide
BlankDoc(n) == [i \in 1..n |-> BlankPage(i - 1)]

\* fitz Document.load_page: a negative page number counts from the end
load_page(doc, page_idx) == (page_idx % Len(doc)) + 1

\* fitz.Rect(x0, y0, x1, y1).is_empty
RectIsEmpty(rect) == rect[1] >= rect[3] \/ rect[2] >= rect[4]

-----------------------------------------------------------------------------
(* 4.2 Normalized geometry: x * W / 1000, in thousandths *)

Denormalize(box, width, height) ==
    <<box[1] * width, box[2] * height, box[3] * width, box[4] * height>>

\* overlay_text with the rectangle taken from the first page's size
OverlayRect_firstPage(doc, page_idx, box) ==
    Denormalize(box, doc[1].width, doc[1].height)

\* overlay_text: the rectangle of a field on the page it is written to
OverlayRect(doc, page_idx, box) ==
    LET page == doc[load_page(doc, page_idx)]
    IN  Denormalize(box, page.width, page.height)

\* the fallback anchored at rect.tl itself
FallbackPoint_topLeft(rect) == <<rect[1], rect[2]>>

\* rect.tl + (2, 12)
FallbackPoint(rect) == <<rect[1] + FallbackDx * Scale, rect[2] + FallbackDy * Scale>>

\* page.insert_textbox(rect, text, fontsize=12): the text flowed into rect
TextboxItem(i, rect, text) ==
    [kind |-> "textbox", field |-> i, rect |-> rect, text |-> text,
     fontsize |-> FontSize]

\* page.insert_text(point, text, fontsize=12): one line at point
TextItem(i, point, text) ==
    [kind |-> "text", field |-> i, point |-> point, text |-> text,
     fontsize |-> FontSize]

AddItem(doc, pno, item) ==
    [doc EXCEPT ![pno].texts = Append(@, item)]

\* if text: with the test dropped
HasText_always(text) == TRUE

\* if text:
HasText(text) == text # ""

RECURSIVE overlay_fields(_, _, _, _)
\* the loop of overlay_text from field i on; rcs[i] is what insert_textbox
\* returns for field i (negative: the text did not fit, nothing written)
overlay_fields(doc, filled_fields, rcs, i) ==
    IF i > Len(filled_fields)
    THEN [raised |-> FALSE, at |-> 0, doc |-> doc]
    ELSE
    LET field == filled_fields[i]
        page_idx == Get(field, "page", 0)
    IN  IF page_idx >= Len(doc)
        THEN overlay_fields(doc, filled_fields, rcs, i + 1)
        ELSE IF "box_2d" \notin DOMAIN field \/ ~Unpacks4(field.box_2d)
        THEN [raised |-> TRUE, at |-> i, doc |-> doc]     \* KeyError / ValueError
        ELSE
        LET pno == load_page(doc, page_idx)
            rect == OverlayRect(doc, page_idx, field.box_2d)
            text == Get(field, "value", "")
        IN  IF ~HasText(text)
            THEN overlay_fields(doc, filled_fields, rcs, i + 1)
            ELSE IF RectIsEmpty(rect)
            THEN [raised |-> TRUE, at |-> i, doc |-> doc] \* insert_textbox: ValueError
            ELSE IF rcs[i] >= 0
            THEN overlay_fields(AddItem(doc, pno, TextboxItem(i, rect, text)),
                                filled_fields, rcs, i + 1)
            ELSE overlay_fields(
                     AddItem(doc, pno, TextItem(i, FallbackPoint(rect), text)),
                     filled_fields, rcs, i + 1)

\* doc.save(output_path): fitz refuses a non-incremental save to the file
\* the document was opened from
Save(fs, doc, pdf_path, output_path) ==
    IF output_path = pdf_path
    THEN [raised |-> TRUE, files |-> fs]
    ELSE [raised |-> FALSE,
          files |-> [p \in DOMAIN fs \cup {output_path} |->
                        IF p = output_path THEN doc ELSE fs[p]]]

\* overlay_text(pdf_path, filled_fields, output_path) on file system fs
overlay_text(fs, pdf_path, filled_fields, output_path, rcs) ==
    LET r == overlay_fields(fs[pdf_path], filled_fields, rcs, 1)
    IN  IF r.raised
        THEN [raised |-> TRUE, at |-> r.at, doc |-> r.doc, files |-> fs]
        ELSE LET s == Save(fs, r.doc, pdf_path, output_path)
             IN  [raised |-> s.raised, at |-> 0, doc |-> r.doc, files |-> s.files]

-----------------------------------------------------------------------------
(* 4.4 Annotation renderer.  A bitmap has its pixel size and the shapes     *)
(* drawn on it.                                                             *)

Bitmap(width, height) == [width |-> width, height |-> height, shapes |-> <<>>]

\* a non-empty list is truthy
Truthy(box) == Len(box) > 0

\* draw_bounding_boxes: the pixel rectangle of a box on the bitmap drawn on
DrawRect(image, box) == Denormalize(box, image.width, image.height)

\* (rect[0], rect[1] - 15 if rect[1] > 15 else rect[1])
LabelPos(rect) ==
    <<rect[1],
      IF rect[2] > LabelGap * Scale THEN rect[2] - LabelGap * Scale ELSE rect[2]>>

RectangleItem(i, rect) ==
    [kind |-> "rectangle", field |-> i, rect |-> rect, outline |-> "red"]

LabelItem(i, pos, label) ==
    [kind |-> "text", field |-> i, pos |-> pos, text |-> label, fill |-> "red"]

Draw(image, item) == [image EXCEPT !.shapes = Append(@, item)]

RECURSIVE draw_fields(_, _, _, _)
\* the loop of draw_bounding_boxes from field i on, drawing on img_copy;
\* strict: the installed Pillow rejects a rectangle with x1 < x0 or y1 < y0
draw_fields(img_copy, fields, strict, i) ==
    IF i > Len(fields)
    THEN [raised |-> FALSE, at |-> 0, image |-> img_copy]
    ELSE
    LET field == fields[i]
        box == Get(field, "box_2d", <<>>)
    IN  IF ~Truthy(box)
        THEN draw_fields(img_copy, fields, strict, i + 1)
        ELSE IF ~Unpacks4(box)
        THEN [raised |-> TRUE, at |-> i, image |-> img_copy]
        ELSE
        LET rect == DrawRect(img_copy, box)
            label == Get(field, "label", "")
            boxed == Draw(img_copy, RectangleItem(i, rect))
        IN  IF strict /\ (rect[3] < rect[1] \/ rect[4] < rect[2])
            THEN [raised |-> TRUE, at |-> i, image |-> img_copy]
            ELSE IF label = ""
            THEN draw_fields(boxed, fields, strict, i + 1)
            ELSE draw_fields(Draw(boxed, LabelItem(i, LabelPos(rect), label)),
                             fields, strict, i + 1)

\* draw_bounding_boxes(image, fields): draws on a copy of image
draw_bounding_boxes(image, fields, strict) ==
    draw_fields(image, fields, strict, 1)

-----------------------------------------------------------------------------
(* 4.3 Field registry: st.session_state.form_data, a dict from page index   *)
(* to the page's fields, kept in insertion order as a sequence of entries.  *)

\* form_data[page_idx] = fields: a new key goes last, a key already there
\* keeps its place
Register(form_data, page_idx, fields) ==
    IF \E k \in DOMAIN form_data : form_data[k].page = page_idx
    THEN [k \in DOMAIN form_data |->
             IF form_data[k].page = page_idx
             THEN [page |-> page_idx, fields |-> fields]
             ELSE form_data[k]]
    ELSE Append(form_data, [page |-> page_idx, fields |-> fields])

\* the inner loop of get_all_fields_flat over one page's fields
StampFields(page_idx, fields) ==
    [j \in DOMAIN fields |->
        SetKey(SetKey(fields[j], "page", page_idx), "field_index", j - 1)]

RECURSIVE get_all_fields_flat(_)
\* for page_idx, fields in form_data.items(): ... all_fields.append(field_copy)
get_all_fields_flat(form_data) ==
    IF form_data = <<>>
    THEN <<>>
    ELSE StampFields(form_data[1].page, form_data[1].fields)
            \o get_all_fields_flat(Tail(form_data))

-----------------------------------------------------------------------------
(* 4.6 Detection boundary: detect_form_fields.  The reply of the service is *)
(* [kind |-> "error"] (the call raised) or [kind |-> "content"] with the    *)
(* text of the message: a JSON body, bare ("none"), inside ```json fences   *)
(* ("fence") or with prose around it ("text").  A body is invalid JSON, a   *)
(* JSON list, or a JSON object (data).                                      *)

\* f.get('label_text') or f.get('id', 'unknown')
LabelOf(f) ==
    IF Get(f, "label_text", "") # "" THEN f.label_text ELSE Get(f, "id", "unknown")

\* if bbox and len(bbox) == 4
KeepsBox(f) == Len(Get(f, "bbox_2d", <<>>)) = 4

RECURSIVE NormalizeFields(_)
\* the loop over raw_fields that builds processed_fields
NormalizeFields(raw_fields) ==
    IF raw_fields = <<>>
    THEN <<>>
    ELSE LET f == raw_fields[1]
             rest == NormalizeFields(Tail(raw_fields))
         IN  IF KeepsBox(f)
             THEN <<[label |-> LabelOf(f),
                     box_2d |-> <<f.bbox_2d[1], f.bbox_2d[2], f.bbox_2d[3], f.bbox_2d[4]>>,
                     type |-> Get(f, "type", "None")]>> \o rest
             ELSE rest

\* data.get("form_fields", []) and the loop, on a parsed JSON value; a value
\* that is no object has no .get: AttributeError, caught by the outer handler
FieldsOfJson(body) ==
    IF body.json = "object"
    THEN NormalizeFields(Get(body.data, "form_fields", <<>>))
    ELSE <<>>

RECURSIVE NormalizeExtracted_keepAll(_)
\* the loop of the fallback without the test of bbox
NormalizeExtracted_keepAll(raw_fields) ==
    IF raw_fields = <<>>
    THEN <<>>
    ELSE LET f == raw_fields[1]
         IN  <<[label |-> LabelOf(f),
                box_2d |-> Get(f, "bbox_2d", <<>>),
                type |-> Get(f, "type", "None")]>>
                \o NormalizeExtracted_keepAll(Tail(raw_fields))

RECURSIVE NormalizeExtracted(_)
\* the same loop, written a second time in the except json.JSONDecodeError
\* branch for the JSON object cut out of the surrounding text
NormalizeExtracted(raw_fields) ==
    IF raw_fields = <<>>
    THEN <<>>
    ELSE LET f == raw_fields[1]
             rest == NormalizeExtracted(Tail(raw_fields))
         IN  IF KeepsBox(f)
             THEN <<[label |-> LabelOf(f),
                     box_2d |-> <<f.bbox_2d[1], f.bbox_2d[2], f.bbox_2d[3], f.bbox_2d[4]>>,
                     type |-> Get(f, "type", "None")]>> \o rest
             ELSE rest

\* the fallback's data.get("form_fields", []) and loop; any exception is
\* swallowed by the bare except and [] returned
FieldsOfExtractedJson(body) ==
    IF body.json = "object"
    THEN NormalizeExtracted(Get(body.data, "form_fields", <<>>))
    ELSE <<>>

\* json.loads(content) after the ``` fences are removed
DirectParseOk(content) == content.wrap # "text" /\ content.body.json # "invalid"

\* json.loads(content[content.find('{') : content.rfind('}') + 1])
ExtractParseOk(content) == content.wrap = "text" /\ content.body.json = "object"

\* detect_form_fields(image_path, api_base, api_key, model)
detect_form_fields(image_readable, api_key, reply) ==
    IF ~image_readable
    THEN [raised |-> TRUE, fields |-> <<>>]          \* encode_image: OSError
    ELSE IF ~api_key
    THEN [raised |-> FALSE, fields |-> <<>>]
    ELSE IF reply.kind = "error"
    THEN [raised |-> FALSE, fields |-> <<>>]
    ELSE IF DirectParseOk(reply.content)
    THEN [raised |-> FALSE, fields |-> FieldsOfJson(reply.content.body)]
    ELSE IF ExtractParseOk(reply.content)
    THEN [raised |-> FALSE, fields |-> FieldsOfExtractedJson(reply.content.body)]
    ELSE [raised |-> FALSE, fields |-> <<>>]

-----------------------------------------------------------------------------
(* 4.1 Rasterizer *)

\* pdf_to_images: page.get_pixmap() renders at 72 dpi, one pixel per point
pdf_to_images(doc) == [i \in DOMAIN doc |-> Bitmap(doc[i].width, doc[i].height)]

-----------------------------------------------------------------------------
(* Voice value cleaning: clean_transcribed_value.  A str is a sequence of   *)
(* one-character strings, so that strip() has characters to remove.         *)

Spaces == {" ", "\n"}
Quotes == {"\"", "'"}

RECURSIVE LStrip(_, _)
LStrip(text, chars) ==
    IF text # <<>> /\ text[1] \in chars THEN LStrip(Tail(text), chars) ELSE text

RECURSIVE RStrip(_, _)
RStrip(text, chars) ==
    IF text # <<>> /\ text[Len(text)] \in chars
    THEN RStrip(SubSeq(text, 1, Len(text) - 1), chars)
    ELSE text

\* str.strip(chars)
Strip(text, chars) == RStrip(LStrip(text, chars), chars)

RECURSIVE Join(_)
\* the characters as one string
Join(text) == IF text = <<>> THEN "" ELSE text[1] \o Join(Tail(text))

\* clean_transcribed_value(raw_text, field_label, api_base, api_key, model);
\* client_ok: OpenAI(base_url=api_base, api_key=api_key) constructs; reply:
\* the completion call raises ("error"), answers without a usable
\* choices[0].message.content ("malformed"), or answers with content
clean_transcribed_value(raw_text, api_key, client_ok, reply) ==
    IF ~api_key \/ Strip(raw_text, Spaces) = <<>>
    THEN [raised |-> FALSE, value |-> raw_text]
    ELSE IF ~client_ok
    THEN [raised |-> TRUE, value |-> <<>>]            \* raised before the try
    ELSE IF reply.kind # "content"
    THEN [raised |-> FALSE, value |-> raw_text]       \* except Exception
    ELSE [raised |-> FALSE,
          value |-> Strip(Strip(reply.content, Spaces), Quotes)]

-----------------------------------------------------------------------------
(* app.py: the script runs once per user interaction, and once more when    *)
(* the handler calls st.rerun().  Every run with a file uploaded first      *)
(* writes the upload to a fresh temporary file.                             *)

\* tempfile.NamedTemporaryFile(suffix=".pdf"): the name of the file written
\* by run r (1, or 2 after st.rerun()) of interaction k; the random part of
\* a name never holds ".pdf"
TmpPath(k, r) == [tmp |-> <<k, r>>, ext |-> <<".pdf">>]

RECURSIVE ReplacePdf(_)
\* str.replace(".pdf", "_filled.pdf") on the pieces of a name
ReplacePdf(ext) ==
    IF ext = <<>>
    THEN <<>>
    ELSE (IF ext[1] = ".pdf" THEN <<"_filled", ".pdf">> ELSE <<ext[1]>>)
            \o ReplacePdf(Tail(ext))

\* the output written over the source
OutputPath_same(pdf_path) == pdf_path

\* st.session_state.pdf_path.replace(".pdf", "_filled.pdf")
OutputPath(pdf_path) == [pdf_path EXCEPT !.ext = ReplacePdf(@)]

\* tmp.write(uploaded_file.getvalue())
WriteTmp(fs, tmp_path, doc) ==
    [p \in DOMAIN fs \cup {tmp_path} |-> IF p = tmp_path THEN doc ELSE fs[p]]

RECURSIVE AnalyzePages(_, _, _, _)
\* the loop of the Analyze PDF handler from page i (0-based) on; outcomes[i+1]
\* says whether the page image can be saved and read and what the service
\* replies.  An exception leaves the loop for the handler's except clause.
AnalyzePages(form_data, outcomes, api_key, i) ==
    IF i >= Len(outcomes)
    THEN [error |-> FALSE, form_data |-> form_data]
    ELSE
    LET o == outcomes[i + 1]
    IN  IF o.image = "unsaved"
        THEN [error |-> TRUE, form_data |-> form_data]       \* img.save raised
        ELSE LET d == detect_form_fields(o.image = "ok", api_key, o.reply)
             IN  IF d.raised
                 THEN [error |-> TRUE, form_data |-> form_data]
                 ELSE AnalyzePages(Register(form_data, i, d.fields),
                                   outcomes, api_key, i + 1)

\* the form shown only when some page has a field
FormDisplayed_anyField(form_data) ==
    \E k \in DOMAIN form_data : form_data[k].fields # <<>>

\* if st.session_state.get('form_data'): a non-empty dict
FormDisplayed(form_data) == form_data # <<>>

\* if st.session_state.voice_mode and sarvam_api_key
VoiceUiShown(ss, sb) == ss.voice_mode /\ sb.sarvam_api_key

\* manual/text mode: field['value'] = user_val; field['page'] = page_idx
FillFromInputs(form_data, inputs) ==
    [k \in DOMAIN form_data |->
        [form_data[k] EXCEPT !.fields =
            [j \in DOMAIN @ |->
                SetKey(SetKey(@[j], "value",
                              Get(inputs, <<form_data[k].page, j - 1>>, "")),
                       "page", form_data[k].page)]]]

\* the Display Form section of a run: the text inputs write into the fields;
\* while the voice UI is shown no text input is rendered, and Streamlit
\* drops the state of widgets a run does not render
Display(ss, sb) ==
    IF ~FormDisplayed(ss.form_data)
    THEN [ss EXCEPT !.inputs = <<>>]
    ELSE IF VoiceUiShown(ss, sb)
    THEN [ss EXCEPT !.inputs = <<>>]
    ELSE [ss EXCEPT !.form_data = FillFromInputs(@, ss.inputs)]

\* voice mode: field['value'] = st.session_state.voice_field_values.get(idx, "")
FillFromVoice(all_fields, voice_field_values) ==
    [idx \in DOMAIN all_fields |->
        SetKey(all_fields[idx], "value", Get(voice_field_values, idx - 1, ""))]

RECURSIVE Concat(_)
Concat(seqs) == IF seqs = <<>> THEN <<>> ELSE seqs[1] \o Concat(Tail(seqs))

\* text mode: final_inputs, the fields of form_data themselves in dict order
FinalTextInputs(form_data) ==
    Concat([k \in DOMAIN form_data |-> form_data[k].fields])

\* final_inputs of the Generate Filled PDF handler
FinalInputs(ss) ==
    IF ss.voice_mode
    THEN FillFromVoice(get_all_fields_flat(ss.form_data), ss.voice_field_values)
    ELSE FinalTextInputs(FillFromInputs(ss.form_data, ss.inputs))

-----------------------------------------------------------------------------
(* Inputs of the unit harness *)

\* sequences over S of length 0..n
SeqUpTo(S, n) == UNION {[1..k -> S] : k \in 0..n}

GoodBox == <<100, 900, 400, 950>>
TopBox == <<100, 10, 400, 60>>
ShortBox == <<100, 900, 400>>
FlatBox == <<100, 900, 400, 900>>
InvertedBox == <<400, 950, 100, 900>>
OutsideBox == <<-50, 900, 1200, 1100>>

\* dicts with optional keys: every page key (2 is beyond every document of the
\* harness) with every box key, and every value key on a well-formed box
OverlayFields ==
    LET pages == {[page |-> p] : p \in {-1, 1, 2}} \cup {<<>>}
        values == {[value |-> v] : v \in {"", "John Doe"}} \cup {<<>>}
        boxes == {[box_2d |-> b] : b \in {GoodBox, ShortBox, FlatBox}} \cup {<<>>}
        Dict(p, v, b) ==
            [k \in DOMAIN p \cup DOMAIN v \cup DOMAIN b |->
                IF k \in DOMAIN p THEN p[k] ELSE IF k \in DOMAIN v THEN v[k] ELSE b[k]]
    IN  {Dict(p, [value |-> "John Doe"], b) : p \in pages, b \in boxes}
        \cup {Dict(p, v, [box_2d |-> GoodBox]) : p \in pages, v \in values}

DrawFields ==
    LET labels == {[label |-> l] : l \in {"", "Name"}} \cup {<<>>}
        boxes == {[box_2d |-> b] :
                     b \in {<<>>, GoodBox, TopBox, ShortBox, InvertedBox, OutsideBox}}
                 \cup {<<>>}
    IN  {[k \in DOMAIN l \cup DOMAIN b |-> IF k \in DOMAIN l THEN l[k] ELSE b[k]] :
         l \in labels, b \in boxes}

SourcePath == TmpPath(0, 1)
FilledPath == OutputPath(SourcePath)

HarnessDocs == {BlankDoc(1), BlankDoc(2)}

HarnessBitmaps == {Bitmap(612, 792), Bitmap(1700, 2200)}

FieldA == [label |-> "A", box_2d |-> GoodBox, type |-> "text_line"]
FieldB == [label |-> "B", box_2d |-> TopBox, type |-> "text_box"]
FieldC == [label |-> "C", box_2d |-> GoodBox, type |-> "checkbox"]

\* form_data[page_idx] = fields, for page indices in any order
Registrations ==
    {[page |-> p, fields |-> f] :
        p \in 0..2, f \in {<<>>, <<FieldA, FieldB>>, <<FieldC>>}}

RECURSIVE RegisterAll(_, _)
RegisterAll(form_data, regs) ==
    IF regs = <<>>
    THEN form_data
    ELSE RegisterAll(Register(form_data, regs[1].page, regs[1].fields), Tail(regs))

FlatCalls ==
    {[fn |-> "get_all_fields_flat", registered |-> regs,
      form_data |-> RegisterAll(<<>>, regs)] :
        regs \in SeqUpTo(Registrations, MaxRegs)}

OverlayCalls ==
    {[fn |-> "overlay_text", doc |-> d, filled_fields |-> f] :
        d \in HarnessDocs, f \in SeqUpTo(OverlayFields, MaxBatch)}

\* what a speaker's transcript may be: empty, blank, padded, plain
RawTexts == {<<>>, <<" ">>, <<" ", "J", "R">>, <<"J", "R">>}

\* what the cleaning model may answer
CleanReplies ==
    {[kind |-> "error"],
     [kind |-> "malformed"],
     [kind |-> "content", content |-> <<>>],
     [kind |-> "content", content |-> <<" ", "\"", "J", ".", "R", "\"", "\n">>]}

CleanCalls ==
    {[fn |-> "clean_transcribed_value", raw_text |-> t, api_key |-> k,
      client_ok |-> c, reply |-> r] :
        t \in RawTexts, k \in BOOLEAN, c \in BOOLEAN, r \in CleanReplies}

DrawCalls ==
    {[fn |-> "draw_bounding_boxes", image |-> b, fields |-> f, strict |-> s] :
        b \in HarnessBitmaps, f \in SeqUpTo(DrawFields, MaxBatch), s \in BOOLEAN}

Pending == [state |-> "pending"]
NoCall == [fn |-> "none"]

\* the session flow standing still while a function is exercised
AppIdle ==
    /\ uploaded = <<>>
    /\ files = <<>>
    /\ runs = 0
    /\ session = <<>>
    /\ sidebar = <<>>
    /\ last = <<>>

AppUnchanged == UNCHANGED <<uploaded, files, runs, session, sidebar, last>>

InitHarness ==
    /\ call \in OverlayCalls \cup DrawCalls \cup FlatCalls \cup CleanCalls
    /\ ret = Pending
    /\ AppIdle

CallOverlayText ==
    /\ call.fn = "overlay_text"
    /\ ret = Pending
    /\ \E rcs \in [1..Len(call.filled_fields) -> {-1, 1}] :
          LET fs == [p \in {SourcePath} |-> call.doc]
              r == overlay_text(fs, SourcePath, call.filled_fields, FilledPath, rcs)
          IN  ret' = [state |-> "returned", raised |-> r.raised, at |-> r.at,
                      doc |-> r.doc, files |-> r.files, rcs |-> rcs]
    /\ UNCHANGED call
    /\ AppUnchanged

CallDrawBoundingBoxes ==
    /\ call.fn = "draw_bounding_boxes"
    /\ ret = Pending
    /\ LET r == draw_bounding_boxes(call.image, call.fields, call.strict)
       IN  ret' = [state |-> "returned", raised |-> r.raised, at |-> r.at,
                   image |-> r.image]
    /\ UNCHANGED call
    /\ AppUnchanged

CallGetAllFieldsFlat ==
    /\ call.fn = "get_all_fields_flat"
    /\ ret = Pending
    /\ ret' = [state |-> "returned", all_fields |-> get_all_fields_flat(call.form_data)]
    /\ UNCHANGED call
    /\ AppUnchanged

CallCleanTranscribedValue ==
    /\ call.fn = "clean_transcribed_value"
    /\ ret = Pending
    /\ LET r == clean_transcribed_value(call.raw_text, call.api_key,
                                        call.client_ok, call.reply)
       IN  ret' = [state |-> "returned", raised |-> r.raised, value |-> r.value]
    /\ UNCHANGED call
    /\ AppUnchanged

NextHarness ==
    \/ CallOverlayText
    \/ CallDrawBoundingBoxes
    \/ CallGetAllFieldsFlat
    \/ CallCleanTranscribedValue

SpecHarness == InitHarness /\ [][NextHarness]_vars

-----------------------------------------------------------------------------
(* The session: inputs of the environment *)

RawName == [id |-> "field_001", label_text |-> "Name", type |-> "text_line",
            bbox_2d |-> GoodBox]
RawNoBox == [id |-> "field_002", label_text |-> "DOB", type |-> "text_box"]
RawIdOnly == [id |-> "field_003", bbox_2d |-> TopBox]
RawShort == [id |-> "field_005", label_text |-> "Phone", bbox_2d |-> ShortBox]
RawEmptyBox == [id |-> "field_006", label_text |-> "City", bbox_2d |-> <<>>]
RawAnonymous == [bbox_2d |-> GoodBox]
RawOutside == [id |-> "field_004", label_text |-> "Email", type |-> "text_box",
               bbox_2d |-> OutsideBox]

Content(wrap, body) == [kind |-> "content", content |-> [wrap |-> wrap, body |-> body]]
Object(data) == [json |-> "object", data |-> data]

\* what the detection service may answer for a page
Replies ==
    {[kind |-> "error"],
     Content("none", [json |-> "invalid"]),
     Content("none", [json |-> "list"]),
     Content("fence", Object([form_fields |-> <<RawName, RawNoBox>>])),
     Content("text", Object([form_fields |-> <<RawShort, RawOutside>>]))}

\* one page of Analyze: the page image cannot be saved, cannot be read back,
\* or is sent and answered
PageOutcomes ==
    {[image |-> i, reply |-> [kind |-> "error"]] : i \in {"unsaved", "unreadable"}}
        \cup {[image |-> "ok", reply |-> r] : r \in Replies}

\* the documents a user uploads
Uploads == {BlankDoc(1), BlankDoc(2)}

TypedValues == {"", "John Doe"}
\* what transcribe_audio_bytes may return for a recording
SpokenValues == {<<"J", "R">>}

NoSession ==
    [form_data |-> <<>>, voice_mode |-> FALSE, current_voice_field |-> 0,
     voice_field_values |-> <<>>, inputs |-> <<>>]

Idle == [op |-> "none"]

HarnessIdle ==
    /\ call = NoCall
    /\ ret = [state |-> "none"]

Init ==
    /\ HarnessIdle
    /\ uploaded \in Uploads
    /\ files = <<>>
    /\ runs = 0
    /\ session = NoSession
    /\ sidebar \in [api_key : BOOLEAN, sarvam_api_key : BOOLEAN]
    /\ last = Idle

-----------------------------------------------------------------------------
(* The session: one action per user interaction *)

\* if st.button("Analyze PDF")
ClickAnalyze ==
    /\ runs < MaxRuns
    /\ \E a \in {AnalyzePages(<<>>, outcomes, sidebar.api_key, 0) :
                    outcomes \in [1..Len(uploaded) -> PageOutcomes]} :
          LET tmp_path == TmpPath(runs + 1, 1)
              reset == [SetKey(session, "pdf_path", tmp_path) EXCEPT
                           !.form_data = <<>>,
                           !.current_voice_field = 0,
                           !.voice_field_values = <<>>]
          IN  /\ session' = Display([reset EXCEPT !.form_data = a.form_data], sidebar)
              /\ last' = [op |-> "analyze", error |-> a.error]
    /\ files' = WriteTmp(files, TmpPath(runs + 1, 1), uploaded)
    /\ runs' = runs + 1
    /\ UNCHANGED <<call, ret, uploaded, sidebar>>

\* the user edits the text input of field j of page page_idx
TypeText(page_idx, j, v) ==
    /\ runs < MaxRuns
    /\ FormDisplayed(session.form_data)
    /\ ~VoiceUiShown(session, sidebar)
    /\ \E k \in DOMAIN session.form_data :
          /\ session.form_data[k].page = page_idx
          /\ j + 1 \in DOMAIN session.form_data[k].fields
    /\ Get(session.inputs, <<page_idx, j>>, "") # v
    /\ session' = Display([session EXCEPT
                              !.inputs = SetKey(@, <<page_idx, j>>, v)], sidebar)
    /\ last' = Idle
    /\ files' = WriteTmp(files, TmpPath(runs + 1, 1), uploaded)
    /\ runs' = runs + 1
    /\ UNCHANGED <<call, ret, uploaded, sidebar>>

\* st.toggle("Voice Fill Mode", value=voice_mode, disabled=not sarvam_api_key)
ToggleVoice ==
    /\ runs < MaxRuns
    /\ FormDisplayed(session.form_data)
    /\ sidebar.sarvam_api_key
    /\ session' = Display([session EXCEPT !.voice_mode = ~@], sidebar)
    /\ last' = Idle
    /\ files' = WriteTmp(files, TmpPath(runs + 1, 1), uploaded)
    /\ runs' = runs + 1
    /\ UNCHANGED <<call, ret, uploaded, sidebar>>

\* the user edits the Sarvam API Key input of the sidebar: a key is entered
\* or removed.  The toggle, disabled without a key, keeps its value.
EditSarvamKey ==
    /\ runs < MaxRuns
    /\ sidebar' = [sidebar EXCEPT !.sarvam_api_key = ~@]
    /\ session' = Display(session, sidebar')
    /\ last' = Idle
    /\ files' = WriteTmp(files, TmpPath(runs + 1, 1), uploaded)
    /\ runs' = runs + 1
    /\ UNCHANGED <<call, ret, uploaded>>

\* the voice UI is on a field: current_idx < len(all_fields)
OnVoiceField ==
    /\ FormDisplayed(session.form_data)
    /\ VoiceUiShown(session, sidebar)
    /\ session.current_voice_field < Len(get_all_fields_flat(session.form_data))

\* a recording is transcribed (heard: transcribe_audio_bytes returns v) and
\* cleaned: st.session_state.voice_field_values[current_idx] = cleaned_value;
\* an exception of either step is shown by the handler and nothing is stored
VoiceRecord(v, heard, client_ok, reply) ==
    /\ runs < MaxRuns
    /\ OnVoiceField
    /\ LET c == clean_transcribed_value(v, sidebar.api_key, client_ok, reply)
       IN  session' =
              IF ~heard \/ c.raised
              THEN Display(session, sidebar)
              ELSE Display([session EXCEPT
                               !.voice_field_values =
                                  SetKey(@, session.current_voice_field,
                                         Join(c.value))], sidebar)
    /\ last' = Idle
    /\ files' = WriteTmp(files, TmpPath(runs + 1, 1), uploaded)
    /\ runs' = runs + 1
    /\ UNCHANGED <<call, ret, uploaded, sidebar>>

\* a navigation button sets the cursor and calls st.rerun(): two script runs
MoveCursor(to, button) ==
    /\ runs < MaxRuns
    /\ session' = Display([session EXCEPT !.current_voice_field = to], sidebar)
    /\ last' = [op |-> button]
    /\ files' = WriteTmp(WriteTmp(files, TmpPath(runs + 1, 1), uploaded),
                         TmpPath(runs + 1, 2), uploaded)
    /\ runs' = runs + 1
    /\ UNCHANGED <<call, ret, uploaded, sidebar>>

Max(a, b) == IF a >= b THEN a ELSE b
\* the cursor moved on without the cap
Min_uncapped(a, b) == b

Min(a, b) == IF a <= b THEN a ELSE b

\* st.button("Previous", disabled=current_idx == 0)
ClickPrevious ==
    /\ OnVoiceField
    /\ session.current_voice_field # 0
    /\ MoveCursor(Max(0, session.current_voice_field - 1), "previous")

\* st.button("Next")
ClickNext ==
    /\ OnVoiceField
    /\ MoveCursor(Min(Len(get_all_fields_flat(session.form_data)) - 1,
                      session.current_voice_field + 1), "next")

\* st.button("Done")
ClickDone ==
    /\ OnVoiceField
    /\ MoveCursor(Len(get_all_fields_flat(session.form_data)), "done")

\* st.button("Start Over"), shown on the review page
ClickStartOver ==
    /\ runs < MaxRuns
    /\ FormDisplayed(session.form_data)
    /\ VoiceUiShown(session, sidebar)
    /\ get_all_fields_flat(session.form_data) # <<>>
    /\ session.current_voice_field >= Len(get_all_fields_flat(session.form_data))
    /\ session' = Display([session EXCEPT !.current_voice_field = 0,
                                          !.voice_field_values = <<>>], sidebar)
    /\ last' = [op |-> "start_over"]
    /\ files' = WriteTmp(WriteTmp(files, TmpPath(runs + 1, 1), uploaded),
                         TmpPath(runs + 1, 2), uploaded)
    /\ runs' = runs + 1
    /\ UNCHANGED <<call, ret, uploaded, sidebar>>

\* if st.button("Generate Filled PDF"); rcs: what insert_textbox returns
ClickGenerate ==
    /\ runs < MaxRuns
    /\ FormDisplayed(session.form_data)
    /\ LET shown == Display(session, sidebar)
           fs == WriteTmp(files, TmpPath(runs + 1, 1), uploaded)
       IN  IF "pdf_path" \in DOMAIN shown
           THEN LET final_inputs == FinalInputs(shown)
                    output_path == OutputPath(shown.pdf_path)
                IN  \E rcs \in [1..Len(final_inputs) -> {-1, 1}] :
                       LET r == overlay_text(fs, shown.pdf_path, final_inputs,
                                             output_path, rcs)
                       IN  /\ session' =
                                 IF shown.voice_mode
                                 THEN shown
                                 ELSE [shown EXCEPT !.form_data =
                                          FillFromInputs(@, shown.inputs)]
                           /\ files' = r.files
                           /\ last' = [op |-> "generate",
                                       status |-> IF r.raised THEN "raised" ELSE "saved",
                                       voice |-> shown.voice_mode,
                                       final_inputs |-> final_inputs,
                                       overwrote |-> output_path \in DOMAIN fs,
                                       pdf_path |-> shown.pdf_path,
                                       output_path |-> output_path]
           ELSE /\ session' = shown
                /\ files' = fs
                /\ last' = [op |-> "generate", status |-> "expired"]
    /\ runs' = runs + 1
    /\ UNCHANGED <<call, ret, uploaded, sidebar>>

Next ==
    \/ ClickAnalyze
    \/ \E page_idx \in 0..(Len(uploaded) - 1), j \in 0..1, v \in TypedValues :
          TypeText(page_idx, j, v)
    \/ ToggleVoice
    \/ EditSarvamKey
    \/ \E v \in SpokenValues, heard \in BOOLEAN, client_ok \in BOOLEAN,
          reply \in CleanReplies :
          VoiceRecord(v, heard, client_ok, reply)
    \/ ClickPrevious
    \/ ClickNext
    \/ ClickDone
    \/ ClickStartOver
    \/ ClickGenerate

Spec == Init /\ [][Next]_vars

-----------------------------------------------------------------------------
(* Properties *)

OverlayReturned == call.fn = "overlay_text" /\ ret.state = "returned"
DrawReturned == call.fn = "draw_bounding_boxes" /\ ret.state = "returned"

\* where in doc the text written for field i of the batch sits
ItemsOf(doc, i) ==
    UNION {{<<pno, k>> : k \in {x \in DOMAIN doc[pno].texts :
                                    doc[pno].texts[x].field = i}} :
           pno \in DOMAIN doc}

HasBox4(f) == "box_2d" \in DOMAIN f /\ Len(f.box_2d) = 4

\* a 4-element box whose rectangle has positive width and height
HasProperBox(f) ==
    HasBox4(f) /\ f.box_2d[1] < f.box_2d[3] /\ f.box_2d[2] < f.box_2d[4]

\* C1: every rectangle overlay_text writes is the field's box scaled by the
\* point size of the page it is written on, which is the field's own page,
\* and every rectangle draw_bounding_boxes draws is the box scaled by the
\* pixel size of the bitmap drawn on; box [100,900,400,950] on a 612x792pt
\* page gives x 61.2..244.8 and y 712.8..752.4.
C1_RectsUseOwnDimensions ==
    /\ OverlayReturned =>
          \A pno \in DOMAIN ret.doc : \A k \in DOMAIN ret.doc[pno].texts :
             LET it == ret.doc[pno].texts[k]
                 f == call.filled_fields[it.field]
                 b == f.box_2d
                 W == call.doc[pno].width
                 H == call.doc[pno].height
             IN  /\ Get(f, "page", 0) >= 0 => pno = Get(f, "page", 0) + 1
                 /\ it.kind = "textbox" =>
                       it.rect = <<b[1] * W, b[2] * H, b[3] * W, b[4] * H>>
                 /\ it.kind = "text" =>
                       it.point = <<b[1] * W + 2000, b[2] * H + 12000>>
                 /\ (it.kind = "textbox" /\ b = <<100, 900, 400, 950>>
                        /\ W = 612 /\ H = 792) =>
                       it.rect = <<61200, 712800, 244800, 752400>>
    /\ DrawReturned =>
          \A k \in DOMAIN ret.image.shapes :
             LET it == ret.image.shapes[k]
                 b == call.fields[it.field].box_2d
                 W == call.image.width
                 H == call.image.height
             IN  it.kind = "rectangle" =>
                    it.rect = <<b[1] * W, b[2] * H, b[3] * W, b[4] * H>>

\* a field of the second, 842x595pt page written with that page's size
C1_Witness ==
    /\ OverlayReturned
    /\ ~ret.raised
    /\ Len(ret.doc) = 2
    /\ \E k \in DOMAIN ret.doc[2].texts :
          /\ ret.doc[2].texts[k].kind = "textbox"
          /\ ret.doc[2].texts[k].rect = <<84200, 535500, 336800, 565250>>

\* C2: a batch in which one field has an absent or wrong-arity box: that
\* field is skipped without raising, every other field is still processed
\* and the output document is produced.
C2_MalformedBoxIsSkipped ==
    OverlayReturned =>
       \A i \in DOMAIN call.filled_fields :
          LET batch == call.filled_fields
              n == Len(call.doc)
              others == DOMAIN batch \ {i}
          IN  (/\ ~HasBox4(batch[i])
               /\ \A j \in others : HasProperBox(batch[j])) =>
                 /\ ~ret.raised
                 /\ FilledPath \in DOMAIN ret.files
                 /\ \A j \in others :
                       (/\ Get(batch[j], "value", "") # ""
                        /\ Get(batch[j], "page", 0) \in 0..(n - 1)) =>
                          ItemsOf(ret.doc, j) # {}

\* C3: a field whose page index is at or above the page count or below 0
\* has nothing written for it on any page and does not fail the call.
C3_OutOfRangePageIsSkipped ==
    OverlayReturned =>
       \A i \in DOMAIN call.filled_fields :
          LET page_idx == Get(call.filled_fields[i], "page", 0)
          IN  (page_idx >= Len(call.doc) \/ page_idx < 0) =>
                 /\ ret.at # i
                 /\ ItemsOf(ret.doc, i) = {}

\* the premise of C4: non-empty value, valid page, valid box, and
\* insert_textbox reporting a negative result
NoFit(i) ==
    LET f == call.filled_fields[i]
    IN  /\ Get(f, "value", "") # ""
        /\ Get(f, "page", 0) \in 0..(Len(call.doc) - 1)
        /\ HasProperBox(f)
        /\ ret.rcs[i] < 0

\* C4: when insert_textbox reports that the value did not fit, the value is
\* inserted once, as a single line at the rectangle's top-left corner moved
\* by (2, 12) at font size 12, on the field's page; the call does not fail
\* at that field, a batch of well-formed boxes never fails whatever fits, and
\* the document saved carries the line.
C4_FallbackOnNoFit ==
    OverlayReturned =>
     /\ (\A j \in DOMAIN call.filled_fields : HasProperBox(call.filled_fields[j])) =>
           /\ ~ret.raised
           /\ FilledPath \in DOMAIN ret.files
     /\ \A i \in DOMAIN call.filled_fields :
          (NoFit(i) /\ (ret.raised => ret.at >= i)) =>
             LET f == call.filled_fields[i]
                 pno == Get(f, "page", 0) + 1
                 W == call.doc[pno].width
                 H == call.doc[pno].height
             IN  /\ ret.at # i
                 /\ Cardinality(ItemsOf(ret.doc, i)) = 1
                 /\ \A at \in ItemsOf(ret.doc, i) :
                       /\ at[1] = pno
                       /\ ret.doc[pno].texts[at[2]] =
                             [kind |-> "text", field |-> i, text |-> f.value,
                              fontsize |-> 12,
                              point |-> <<f.box_2d[1] * W + 2000,
                                          f.box_2d[2] * H + 12000>>]
                 /\ ~ret.raised =>
                       /\ FilledPath \in DOMAIN ret.files
                       /\ ret.files[FilledPath] = ret.doc

\* a saved document holding a fallback line next to a fitted text box
C4_Witness ==
    /\ OverlayReturned
    /\ ~ret.raised
    /\ FilledPath \in DOMAIN ret.files
    /\ \E i, j \in DOMAIN call.filled_fields :
          /\ NoFit(i)
          /\ \E at \in ItemsOf(ret.files[FilledPath], i) :
                ret.files[FilledPath][at[1]].texts[at[2]].kind = "text"
          /\ \E at \in ItemsOf(ret.files[FilledPath], j) :
                ret.files[FilledPath][at[1]].texts[at[2]].kind = "textbox"

FlatReturned == call.fn = "get_all_fields_flat" /\ ret.state = "returned"

Generated == last.op = "generate" /\ last.status # "expired"
Saved == last.op = "generate" /\ last.status = "saved"

\* every item of doc
AllItems(doc) ==
    UNION {{doc[pno].texts[k] : k \in DOMAIN doc[pno].texts} : pno \in DOMAIN doc}

\* C5: a field whose value is the empty string or was never supplied gets
\* nothing written on any page of the generated document, whether the values
\* come from the text inputs or from the recorded voice values.
C5_EmptyValueWritesNothing ==
    Saved =>
       LET out == files[last.output_path]
           n == Len(last.final_inputs)
       IN  /\ \A i \in 1..n :
                 Get(last.final_inputs[i], "value", "") = "" => ItemsOf(out, i) = {}
           /\ last.voice =>
                 \A i \in 1..n :
                    (i - 1) \notin DOMAIN session.voice_field_values =>
                       ItemsOf(out, i) = {}
           /\ (~last.voice /\ session.inputs = <<>>) => AllItems(out) = {}

\* a voice-mode generate that wrote one recorded value and left the field
\* nobody answered untouched
C5_Witness ==
    /\ Saved
    /\ last.voice
    /\ Len(last.final_inputs) = 2
    /\ DOMAIN session.voice_field_values = {0}
    /\ ItemsOf(files[last.output_path], 1) # {}
    /\ ItemsOf(files[last.output_path], 2) = {}

\* C6: generate saves to a path other than the source path, the source
\* document keeps the uploaded content through any number of generates, and
\* what a generate saves is the original pages plus this generate's values
\* only (at most one item per field, carrying that field's value).
C6_SourceNeverModified ==
    /\ Generated => last.output_path # last.pdf_path
    /\ "pdf_path" \in DOMAIN session => files[session.pdf_path] = uploaded
    /\ Saved =>
          LET out == files[last.output_path]
          IN  /\ Len(out) = Len(uploaded)
              /\ \A pno \in DOMAIN out :
                    /\ out[pno].width = uploaded[pno].width
                    /\ out[pno].height = uploaded[pno].height
              /\ \A it \in AllItems(out) :
                    /\ it.field \in DOMAIN last.final_inputs
                    /\ it.text = last.final_inputs[it.field].value
              /\ \A i \in DOMAIN last.final_inputs :
                    Cardinality(ItemsOf(out, i)) <= 1

\* a second generate from the same source, saved over the first one's output
C6_Witness ==
    /\ Saved
    /\ last.overwrote
    /\ Cardinality(AllItems(files[last.output_path])) = 1
    /\ \E it \in AllItems(files[last.output_path]) : it.text = "John Doe"

\* every page of form_data has an empty field list
NothingDetected ==
    /\ {session.form_data[k].page : k \in DOMAIN session.form_data} =
          0..(Len(uploaded) - 1)
    /\ \A k \in DOMAIN session.form_data : session.form_data[k].fields = <<>>

\* C7: when detection returned no field for any page, the form section with
\* the generate button is still shown, and a generate saves a document whose
\* pages are those of the input, with nothing written on them.
C7_NoFieldsStillGenerates ==
    NothingDetected =>
       /\ FormDisplayed(session.form_data)
       /\ last.op = "generate" =>
             /\ last.status = "saved"
             /\ files[last.output_path] = uploaded
             /\ files[last.output_path] = files[last.pdf_path]

\* a generate after an analysis of a two-page document that found nothing
C7_Witness ==
    /\ NothingDetected
    /\ Len(uploaded) = 2
    /\ Saved
    /\ last.final_inputs = <<>>
    /\ files[last.output_path] = uploaded

\* C9: every box stored in form_data has its four coordinates within
\* [0,1000] with xmin <= xmax and ymin <= ymax, whatever the service sent.
C9_StoredBoxesAreClamped ==
    \A k \in DOMAIN session.form_data :
       \A j \in DOMAIN session.form_data[k].fields :
          LET b == session.form_data[k].fields[j].box_2d
          IN  /\ \A c \in 1..4 : b[c] >= 0 /\ b[c] <= 1000
              /\ b[1] <= b[3]
              /\ b[2] <= b[4]

\* C10: after Analyze every page index 0..n-1 of the document has an entry
\* in form_data, a page whose detection failed having an empty list.
C10_EveryPageHasAnEntry ==
    last.op = "analyze" =>
       {session.form_data[k].page : k \in DOMAIN session.form_data} =
          0..(Len(uploaded) - 1)

CleanReturned == call.fn = "clean_transcribed_value" /\ ret.state = "returned"

\* C11: clean_transcribed_value never raises; when the client cannot be
\* constructed, the service call fails or the response is malformed it
\* returns raw_text unchanged, and so it does without an API key or for a
\* blank raw_text.
C11_CleanFallsBackToRawText ==
    CleanReturned =>
       /\ ~ret.raised
       /\ (\/ ~call.api_key
           \/ Strip(call.raw_text, Spaces) = <<>>
           \/ ~call.client_ok
           \/ call.reply.kind # "content") => ret.value = call.raw_text

\* a box that is absent or an empty list
NoBox(f) == Get(f, "box_2d", <<>>) = <<>>

\* C12: for fields whose boxes have four coordinates, inside the bitmap or
\* not, inverted or not, draw_bounding_boxes does not raise, and every
\* rectangle it draws lies within [0,width] x [0,height].
C12_DrawNeverRaisesAndClips ==
    (DrawReturned /\ \A i \in DOMAIN call.fields :
                        NoBox(call.fields[i]) \/ HasBox4(call.fields[i])) =>
       /\ ~ret.raised
       /\ \A k \in DOMAIN ret.image.shapes :
             LET it == ret.image.shapes[k]
                 W == call.image.width * Scale
                 H == call.image.height * Scale
             IN  it.kind = "rectangle" =>
                    /\ it.rect[1] \in 0..W /\ it.rect[3] \in 0..W
                    /\ it.rect[2] \in 0..H /\ it.rect[4] \in 0..H

\* C13: a label is drawn above the top edge of its box when there is room
\* above (more than 15 px) and at or under the bottom edge of the box when
\* there is none; a field with a missing or empty box draws nothing and does
\* not fail the call.
C13_LabelAboveOrBelow ==
    DrawReturned =>
       /\ \A k \in DOMAIN ret.image.shapes :
             LET it == ret.image.shapes[k]
                 rect == DrawRect(call.image, call.fields[it.field].box_2d)
             IN  it.kind = "text" =>
                    IF rect[2] > LabelGap * Scale
                    THEN it.pos[2] < rect[2]
                    ELSE it.pos[2] >= rect[4]
       /\ \A i \in DOMAIN call.fields :
             NoBox(call.fields[i]) =>
                /\ ret.at # i
                /\ \A k \in DOMAIN ret.image.shapes : ret.image.shapes[k].field # i

\* what overlay_text writes for field i when it is the whole batch
Alone(i) ==
    LET r == overlay_fields(call.doc, <<call.filled_fields[i]>>, <<ret.rcs[i]>>, 1)
    IN  UNION {{[pno |-> pno, item |-> [r.doc[pno].texts[k] EXCEPT !.field = i]] :
                   k \in DOMAIN r.doc[pno].texts} : pno \in DOMAIN r.doc}

\* what overlay_text wrote for field i in the batch
InBatch(i) ==
    {[pno |-> at[1], item |-> ret.doc[at[1]].texts[at[2]]] : at \in ItemsOf(ret.doc, i)}

\* C14: in a batch whose boxes all have four coordinates, every field with a
\* non-empty value on a page of the document gets exactly one placement,
\* the wrapped fit or the single line, in the document that is saved, and
\* it is the placement the field gets when it is alone in the batch.
C14_AtomicAndIndependent ==
    (OverlayReturned /\ \A j \in DOMAIN call.filled_fields :
                           HasBox4(call.filled_fields[j])) =>
       \A i \in DOMAIN call.filled_fields :
          LET f == call.filled_fields[i]
          IN  (/\ Get(f, "value", "") # ""
               /\ Get(f, "page", 0) \in 0..(Len(call.doc) - 1)
               /\ HasProperBox(f)) =>
                 /\ Cardinality(ItemsOf(ret.doc, i)) = 1
                 /\ InBatch(i) = Alone(i)
                 /\ FilledPath \in DOMAIN ret.files
                 /\ ret.files[FilledPath] = ret.doc

\* the value of every field of final_inputs, in order
ValuesOf(fields) == [i \in DOMAIN fields |-> Get(fields[i], "value", "")]

\* what the displayed text inputs hold, field by field in form order
TypedIntoForm ==
    ValuesOf(FinalTextInputs(FillFromInputs(session.form_data, session.inputs)))

\* what was recorded by voice, field by field in flattened order
RecordedByVoice ==
    [i \in DOMAIN get_all_fields_flat(session.form_data) |->
        Get(session.voice_field_values, i - 1, "")]

\* C15: Generate writes the values of the text inputs whenever the text form
\* is the one displayed (voice mode off, or on without a Sarvam key), and
\* the recorded voice values only when the voice UI is displayed.
C15_GenerateUsesDisplayedMode ==
    Generated =>
       IF VoiceUiShown(session, sidebar)
       THEN ValuesOf(last.final_inputs) = RecordedByVoice
       ELSE ValuesOf(last.final_inputs) = TypedIntoForm

VoiceN == Len(get_all_fields_flat(session.form_data))

C16_CursorInRange ==
    /\ session.current_voice_field \in 0..VoiceN
    /\ (VoiceN >= 1 /\ last.op \in {"previous", "next"}) =>
          session.current_voice_field \in 0..(VoiceN - 1)
    /\ last.op \in {"analyze", "start_over"} =>
          /\ session.current_voice_field = 0
          /\ session.voice_field_values = <<>>

C16_ReviewOnlyThroughDone ==
    (/\ VoiceN' >= 1
     /\ session'.current_voice_field = VoiceN'
     /\ session.current_voice_field # session'.current_voice_field) =>
        last'.op = "done"

DetectReplies ==
    {Content(w, Object([form_fields |->
        <<RawName, RawNoBox, RawIdOnly, RawShort, RawEmptyBox, RawAnonymous,
          RawOutside>>])) : w \in {"none", "fence", "text"}}

\* label_text, else id, else 'unknown'
ExpectedLabel(f) ==
    IF "label_text" \in DOMAIN f THEN f.label_text
    ELSE IF "id" \in DOMAIN f THEN f.id ELSE "unknown"

RawHasBox4(f) == "bbox_2d" \in DOMAIN f /\ Len(f.bbox_2d) = 4

\* C17: every field detect_form_fields returns has a box_2d of exactly four
\* elements and a label (label_text, else id, else 'unknown'); the fields
\* returned are the raw entries with a 4-element bbox_2d, in order, on the
\* direct path and on the extract-from-text path; so every field stored by
\* Analyze has a 4-element box and a label.
C17_ReturnedFieldsHaveBox4 ==
    /\ \A k \in DOMAIN session.form_data :
          \A j \in DOMAIN session.form_data[k].fields :
             LET f == session.form_data[k].fields[j]
             IN  /\ "box_2d" \in DOMAIN f /\ Len(f.box_2d) = 4
                 /\ "label" \in DOMAIN f
    /\ \A reply \in DetectReplies :
          LET d == detect_form_fields(TRUE, TRUE, reply)
              kept == SelectSeq(reply.content.body.data.form_fields, RawHasBox4)
          IN  /\ ~d.raised
              /\ Len(d.fields) = Len(kept)
              /\ \A i \in DOMAIN kept :
                    /\ d.fields[i].box_2d = kept[i].bbox_2d
                    /\ d.fields[i].label = ExpectedLabel(kept[i])

\* an Analyze whose reply came as text around the JSON object: the entry with
\* a 3-element bbox_2d is dropped, the one after it is stored
C17_Witness ==
    /\ last.op = "analyze"
    /\ \E k \in DOMAIN session.form_data :
          /\ Len(session.form_data[k].fields) = 1
          /\ session.form_data[k].fields[1].label = "Email"

====
